---- MODULE Spec2Model ----
(***************************************************************************)
(* Model of src/schema.js (class Schema): type dispatch, document build,   *)
(* reference collapsing, populate / virtual resolution, the hook chain and *)
(* the four registration calls.                                            *)
(*                                                                         *)
(* JavaScript values are records [t, a, c, e]:                             *)
(*   t  the class of the value: "string", "number", "boolean", "date",     *)
(*      "object" (a resolved document), "array", "undefined", "null",      *)
(*      "delete" (Firestore.FieldValue.delete());                          *)
(*   a  the payload (for a document: the payload of its _id);              *)
(*   c  TRUE once a scalar type's getValue has produced the value;         *)
(*   e  the elements of an array (values whose own e is empty).            *)
(* A JavaScript object is a function from its own keys to values.          *)
(***************************************************************************)
EXTENDS Integers, Sequences, FiniteSets, TLC

VARIABLES
  _fieldDefs,   \* Schema._fieldDefs: sequence of [key, def], in for-in order
  _preOps,      \* Schema._preOps: sequence of [operation, cb]
  _populates,   \* Schema._populates: sequence of [path, model]
  _virtuals,    \* Schema._virtuals: sequence of [fieldName, virtualDef]
  _uploads,     \* Schema._uploads: sequence of [storagePath, path]
  _model,       \* Schema._model: [attached, _modelName]; not attached is null
  _models,      \* Schema._models: [attached, names]; not attached is null
  run,          \* the frame of the asynchronous call in flight (NoRun when none)
  writes,       \* assignments the caller made to the document during that call
  pc,           \* "idle", "pending" while a call is in flight, else the
                \* operation that ended last
  args,         \* the arguments of the operation that ran last
  object,       \* the object handed to the operation, as the operation left it
  retObject,    \* what the operation returned (NoObject when it threw)
  error,        \* the error the operation threw (NoError when it returned)
  trace,        \* calls the operation made, in order
  history       \* every registration call made so far, in order

vars == <<_fieldDefs, _preOps, _populates, _virtuals, _uploads, _model, _models,
          run, writes, pc, args, object, retObject, error, trace, history>>

\* The fields of the schema
schema == <<_fieldDefs, _preOps, _populates, _virtuals, _uploads, _model, _models>>
\* The registries
registries == <<_preOps, _populates, _virtuals, _uploads>>
\* The record of the last operation
last == <<pc, args, object, retObject, error, trace>>

----------------------------------------------------------------------------
(* Bounds of the model.                                                    *)

\* Values (scalars and array elements) a source object holds in its fields
\* and metadata keys, in total.
MaxSize == 2
\* Registration calls made on one schema.
MaxCalls == 3
\* Assignments the caller makes to a document while a call on it is in flight.
MaxWrites == 1
\* Registration calls made on a schema that documents are populated with.
MaxRegistered == 2

----------------------------------------------------------------------------
(* JavaScript values.                                                      *)

Atom(t, a) == [t |-> t, a |-> a, c |-> FALSE, e |-> <<>>]
Undefined == Atom("undefined", "")
Null == Atom("null", "")
ArrayOf(es) == [t |-> "array", a |-> "", c |-> FALSE, e |-> es]
StrA == Atom("string", "A")
Num1 == Atom("number", "1")
Num0 == Atom("number", "0")
BoolT == Atom("boolean", "true")
DateD == Atom("date", "d")
DocB == Atom("object", "B")

\* typeof value
TypeOf(v) ==
  IF v.t \in {"string", "number", "boolean", "undefined"} THEN v.t ELSE "object"

\* object[key]: undefined when key is not a property of object
Get(obj, key) == IF key \in DOMAIN obj THEN obj[key] ELSE Undefined

\* object[key] = value
Put(obj, key, value) ==
  [k \in DOMAIN obj \cup {key} |-> IF k = key THEN value ELSE obj[k]]

\* delete object[key]
Remove(obj, key) == [k \in DOMAIN obj \ {key} |-> obj[k]]

\* if (value): JavaScript truthiness
Truthy(v) ==
  /\ v.t \notin {"undefined", "null"}
  /\ ~(v.t = "number" /\ v.a = "0")
  /\ ~(v.t = "string" /\ v.a = "")
  /\ ~(v.t = "boolean" /\ v.a = "false")

\* value._id for a value whose typeof is 'object' and that is not null
IdOf(v) == IF v.t = "object" THEN Atom("string", v.a) ELSE Undefined

----------------------------------------------------------------------------
(* The field types (./types/string, boolean, date, number, ref): external  *)
(* modules, modelled from their interface {validate, validateArray,        *)
(* getValue, getValueArray}.  A scalar type accepts the values of its      *)
(* class and its getValue yields the coerced form of the value (c = TRUE), *)
(* so that coercing twice equals coercing once; the reference type accepts *)
(* an identity string and yields it as it is.                              *)

NativeClass(type) ==
  CASE type = "String" -> "string"
    [] type = "Boolean" -> "boolean"
    [] type = "Date" -> "date"
    [] type = "Number" -> "number"
    [] type = "Ref" -> "string"

\* <Type>.validate(value)
Validate(type, value) == value.t = NativeClass(type)

\* <Type>.validateArray(values)
ValidateArray(type, value) ==
  /\ value.t = "array"
  /\ \A i \in 1..Len(value.e) : Validate(type, value.e[i])

\* <Type>.getValue(value)
GetValue(type, value) ==
  IF type = "Ref" THEN value ELSE [value EXCEPT !.c = TRUE]

\* <Type>.getValueArray(values)
GetValueArray(type, value) ==
  [value EXCEPT !.e = [i \in 1..Len(value.e) |-> GetValue(type, value.e[i])]]

----------------------------------------------------------------------------
(* Field definitions.  A definition is [array, d]: d is what the schema    *)
(* author wrote ("String", "Boolean", "Date", "Number" for the             *)
(* constructors, "Ref" for an object with a ref key, "Object" for another  *)
(* object, "Other" for anything else), array tells whether it was written  *)
(* inside a one-element array.                                             *)

Scalar(d) == [array |-> FALSE, d |-> d]
ArrayDef(d) == [array |-> TRUE, d |-> d]

\* this._fieldDefs[key] (keys are unique in an object literal)
FieldDef(defs, key) ==
  LET i == CHOOSE j \in 1..Len(defs) : defs[j].key = key IN defs[i].def

DefKeys(defs) == {defs[i].key : i \in 1..Len(defs)}

\* typeof this._fieldDefs[key] === 'object'
IsObjectDef(def) == def.array \/ def.d \in {"Ref", "Object"}

\* typeof def === 'object' && Object.keys(def).includes('ref')
IsRef(def) == ~def.array /\ def.d = "Ref"

\* def instanceof Array && typeof def[0] === 'object' && keys of def[0] include 'ref'
IsRefArray(def) == def.array /\ def.d = "Ref"

NoError == [kind |-> "none", model |-> "", key |-> "", expected |-> "", value |-> Undefined]
\* TypeError: Cannot read properties of <of> (reading '<reading>'), with of
\* null or undefined; x is not iterable reads the iterator of x
TypeError(reading, of) ==
  [kind |-> "TypeError", model |-> "", key |-> reading, expected |-> "", value |-> of]

\* this._model = null
NullModel == [attached |-> FALSE, _modelName |-> ""]

\* new Error(`${this._model._modelName} property '${key}' is invalid. Expected
\* ${expected}. Value: ${value}.`): reading _modelName of null throws instead
Invalid(key, expected, value) ==
  IF _model.attached
    THEN [kind |-> "invalid", model |-> _model._modelName, key |-> key,
          expected |-> expected, value |-> value]
    ELSE TypeError("_modelName", Null)

\* Schema._validateField(key, value): [valid, error]; error is NoError when it returns
_validateField(defs, key, value) ==
  LET def == FieldDef(defs, key)
      ok(valid) == [valid |-> valid, error |-> NoError]
      throw(expected) == [valid |-> FALSE, error |-> Invalid(key, expected, value)]
  IN  IF ~def.array /\ def.d \in {"String", "Boolean", "Date", "Number"}
        THEN IF Validate(def.d, value) THEN ok(TRUE) ELSE throw(def.d)
      ELSE IF IsRef(def)
        THEN IF Validate("Ref", value) THEN ok(TRUE) ELSE throw("Document ID")
      ELSE IF def.array /\ def.d = "String"
        THEN IF ValidateArray("String", value) THEN ok(TRUE) ELSE throw("Array<String>")
      ELSE IF IsRefArray(def)
        THEN IF ValidateArray("Ref", value) THEN ok(TRUE) ELSE throw("Array<Document ID>")
      ELSE IF IsObjectDef(def)
        THEN ok(TRUE)
      ELSE ok(FALSE)

\* Schema._getValue(key, value)
_getValue(defs, key, value) ==
  LET def == FieldDef(defs, key)
      r1 == IF ~def.array /\ def.d \in {"String", "Boolean", "Date", "Number"}
              THEN GetValue(def.d, value) ELSE Null
      r2 == IF IsRef(def) THEN GetValue("Ref", value) ELSE r1
      r3 == IF def.array /\ def.d = "String" THEN GetValueArray("String", value)
            ELSE IF IsRefArray(def) THEN GetValueArray("Ref", value)
            ELSE r2
  IN  IF IsObjectDef(def) THEN value ELSE r3

----------------------------------------------------------------------------
(* Reference collapsing and document build.                                *)

\* for (const value of x): strings iterate by character (payloads are one
\* character long), arrays by element; nothing else modelled is iterable
Iterable(v) == v.t \in {"array", "string"}
Elements(v) ==
  IF v.t = "array" THEN v.e ELSE IF v.a = "" THEN <<>> ELSE <<Atom("string", v.a)>>

\* Collapse with the resolved document pushed as it is
Collapse_KeepsDocument(v) == v

\* typeof value === 'object' ? value._id : value  (null._id throws)
Collapse(v) == IF TypeOf(v) = "object" THEN IdOf(v) ELSE v
CollapseThrows(v) == v.t = "null"

\* _depopulate taking every array definition for an array of references
_depopulate_AnyArray(defs, key, obj) ==
  LET def == FieldDef(defs, key)
      value == Get(obj, key)
      es == Elements(value)
  IN  IF def.array
        THEN IF ~Iterable(value) \/ \E i \in 1..Len(es) : es[i].t = "null"
               THEN [object |-> obj, error |-> TypeError("iterator", value)]
               ELSE [object |-> Put(obj, key,
                                    ArrayOf([i \in 1..Len(es) |->
                                      IF TypeOf(es[i]) = "object" THEN IdOf(es[i]) ELSE es[i]])),
                     error |-> NoError]
      ELSE [object |-> obj, error |-> NoError]

\* Schema._depopulate(key, object): [object, error], object as left in place
_depopulate(defs, key, obj) ==
  LET def == FieldDef(defs, key)
      value == Get(obj, key)
      es == Elements(value)
  IN  IF IsRefArray(def)
        THEN IF ~Iterable(value)
               THEN [object |-> obj, error |-> TypeError("iterator", value)]
             ELSE IF \E i \in 1..Len(es) : CollapseThrows(es[i])
               THEN [object |-> obj, error |-> TypeError("_id", Null)]
               ELSE [object |-> Put(obj, key, ArrayOf([i \in 1..Len(es) |-> Collapse(es[i])])),
                     error |-> NoError]
      ELSE IF IsRef(def)
        THEN IF CollapseThrows(value)
               THEN [object |-> obj, error |-> TypeError("_id", Null)]
               ELSE [object |-> Put(obj, key, Collapse(value)), error |-> NoError]
      ELSE [object |-> obj, error |-> NoError]

\* Firestore.FieldValue.delete()
DeleteSentinel == Atom("delete", "")

NoObject == [k \in {"(none)"} |-> Undefined]

\* catch (error): console.warn and new Error(`Error processing
\* ${this._model._modelName}. Operation Failed. Inner Exception:
\* ${error.message}`); reading _modelName of null throws out of the catch
BuildError(inner) ==
  IF _model.attached THEN [inner EXCEPT !.model = _model._modelName]
                     ELSE TypeError("_modelName", Null)

\* The loop body emitting the delete sentinel whether or not includeDeletes
\* is set
BuildKey_DeletesAlways(defs, i, st, includeDeletes, cleanRefs) ==
  LET key == defs[i].key
      own == key \in DOMAIN st.object
  IN  IF own /\ st.object[key] = Undefined
        THEN [st EXCEPT !.ret = Put(st.ret, key, Atom("delete", ""))]
      ELSE IF own
        THEN [st EXCEPT !.validated = Append(st.validated, key),
                        !.ret = Put(st.ret, key, st.object[key])]
      ELSE st

\* The body of the for-in loop of _build for the i-th declared key, on the
\* loop state st = [ret, object, error, validated]
BuildKey(defs, i, st, includeDeletes, cleanRefs) ==
  LET key == defs[i].key
      own == key \in DOMAIN st.object
      isUndef == own /\ st.object[key] = Undefined
      dep == IF cleanRefs THEN _depopulate(defs, key, st.object)
                          ELSE [object |-> st.object, error |-> NoError]
      val == _validateField(defs, key, dep.object[key])
  IN  IF isUndef /\ includeDeletes
        THEN [st EXCEPT !.ret = Put(st.ret, key, DeleteSentinel)]
      ELSE IF own /\ ~isUndef
        THEN IF dep.error # NoError
               THEN [st EXCEPT !.error = BuildError(dep.error)]
             ELSE IF val.error # NoError
               THEN [st EXCEPT !.object = dep.object,
                               !.validated = Append(st.validated, key),
                               !.error = BuildError(val.error)]
             ELSE [st EXCEPT !.object = dep.object,
                             !.validated = Append(st.validated, key),
                             !.ret = Put(st.ret, key, _getValue(defs, key, dep.object[key]))]
      ELSE st

RECURSIVE BuildLoop(_, _, _, _, _)
BuildLoop(defs, i, st, includeDeletes, cleanRefs) ==
  IF i > Len(defs) \/ st.error # NoError THEN st
  ELSE BuildLoop(defs, i + 1, BuildKey(defs, i, st, includeDeletes, cleanRefs),
                 includeDeletes, cleanRefs)

\* Finish copying _c and _u whenever the source owns them
Finish_CopiesOwn(ret, obj, removeId) ==
  LET r1 == Put(ret, "_id", Get(obj, "_id"))
      r2 == IF "_c" \in DOMAIN obj THEN Put(r1, "_c", obj["_c"]) ELSE r1
      r3 == IF "_u" \in DOMAIN obj THEN Put(r2, "_u", obj["_u"]) ELSE r2
  IN  IF removeId THEN Remove(r3, "_id") ELSE r3

\* retObject._id = object._id; copy _c and _u when truthy; delete _id on removeId
Finish(ret, obj, removeId) ==
  LET r1 == Put(ret, "_id", Get(obj, "_id"))
      r2 == IF Truthy(Get(obj, "_c")) THEN Put(r1, "_c", obj["_c"]) ELSE r1
      r3 == IF Truthy(Get(obj, "_u")) THEN Put(r2, "_u", obj["_u"]) ELSE r2
  IN  IF removeId THEN Remove(r3, "_id") ELSE r3

\* Schema._build(object, removeId, includeDeletes, cleanRefs):
\* [ret, object, error, validated]; ret is NoObject when it throws
_build(defs, obj, removeId, includeDeletes, cleanRefs) ==
  LET st == BuildLoop(defs, 1,
                      [ret |-> <<>>, object |-> obj, error |-> NoError, validated |-> <<>>],
                      includeDeletes, cleanRefs)
  IN  IF st.error # NoError THEN [st EXCEPT !.ret = NoObject]
      ELSE [st EXCEPT !.ret = Finish(st.ret, st.object, removeId)]

----------------------------------------------------------------------------
(* Inputs.                                                                 *)

FieldKeys == <<"a", "b">>

Defs ==
  {Scalar(d) : d \in {"String", "Boolean", "Date", "Number", "Ref", "Object", "Other"}}
    \cup {ArrayDef(d) : d \in {"String", "Boolean", "Date", "Number", "Ref"}}

\* Definitions of a second declared key: one validated scalar, the two
\* reference shapes, one array of scalars
SecondDefs == {Scalar("String"), Scalar("Ref"), ArrayDef("Ref"), ArrayDef("Number")}

\* The field-definition maps: one declared key of any definition, or two
Schemas ==
  {<<d>> : d \in Defs} \cup {<<d1, d2>> : d1 \in Defs, d2 \in SecondDefs}

SchemaOf(ds) == [i \in 1..Len(ds) |-> [key |-> FieldKeys[i], def |-> ds[i]]]

Scalars == {StrA, Num1, BoolT, DateD, DocB, Null}
ElementValues == {StrA, Num1, DocB}

RECURSIVE SeqsUpTo(_, _)
SeqsUpTo(S, n) ==
  IF n = 0 THEN {<<>>}
  ELSE LET shorter == SeqsUpTo(S, n - 1)
       IN  shorter \cup {Append(q, x) : q \in {r \in shorter : Len(r) = n - 1}, x \in S}

Arrays == {ArrayOf(es) : es \in SeqsUpTo(ElementValues, MaxSize)}

\* "absent" marks a key that is not an own property of the source
Absent == Atom("absent", "")
FieldValues == {Absent, Undefined} \cup Scalars \cup Arrays
MetaValues == {Absent, Num0, DateD}

SizeOf(v) == IF v.t = "array" THEN Len(v.e) ELSE IF v \in {Absent, Undefined} THEN 0 ELSE 1

\* The object with the given values under a, b, _c, _u and an _id
MakeObject(va, vb, vc, vu) ==
  LET all == [a |-> va, b |-> vb, _c |-> vc, _u |-> vu, _id |-> Atom("string", "I")]
  IN  [k \in {j \in DOMAIN all : all[j] # Absent} |-> all[k]]

Sources ==
  {MakeObject(q[1], q[2], q[3], q[4]) :
     q \in {r \in FieldValues \X FieldValues \X MetaValues \X MetaValues :
              SizeOf(r[1]) + SizeOf(r[2]) + SizeOf(r[3]) + SizeOf(r[4]) <= MaxSize}}

----------------------------------------------------------------------------
(* The schema as a state machine.                                          *)

NoArgs == [op |-> "none"]

\* this._models = null
NullModels == [attached |-> FALSE, names |-> <<>>]

\* No asynchronous call in flight.  A frame holds the position of
\* _doPopulates or _doVirtuals at an await: the descriptor index i, its path
\* and model name, whether the registry held the model, the array being
\* fetched (es), the element awaited (j), the results so far, and the
\* identity or value the pending fetch was called with (id)
NoRun ==
  [op |-> "none", i |-> 0, path |-> "", model |-> "", resolved |-> FALSE,
   es |-> <<>>, j |-> 0, results |-> <<>>, id |-> Undefined]

\* The record of the last operation after a call that returns nothing and
\* is not in the way of a call in flight
Called(a) ==
  IF run.op = "none"
    THEN /\ pc' = "idle"
         /\ args' = a
         /\ object' = <<>>
         /\ retObject' = NoObject
         /\ error' = NoError
         /\ trace' = <<>>
    ELSE UNCHANGED last

\* The owning models a schema is attached to
OwnerModels == {NullModel, [attached |-> TRUE, _modelName |-> "Owner"]}

\* _setModel(model)
_setModel(model) ==
  /\ _model' = model
  /\ Called(NoArgs)
  /\ UNCHANGED <<_fieldDefs, registries, _models, run, writes, history>>

\* constructor(fieldDefs)
Init ==
  /\ _fieldDefs \in {SchemaOf(ds) : ds \in Schemas}
  /\ _preOps = <<>>
  /\ _populates = <<>>
  /\ _virtuals = <<>>
  /\ _uploads = <<>>
  /\ _model = NullModel
  /\ _models = NullModels
  /\ run = NoRun
  /\ writes = 0
  /\ pc = "idle"
  /\ args = NoArgs
  /\ object = <<>>
  /\ retObject = NoObject
  /\ error = NoError
  /\ trace = <<>>
  /\ history = <<>>

\* build(source, removeId, includeDeletes, cleanRefs)
Build ==
  /\ pc = "idle"
  /\ \E source \in Sources, removeId \in BOOLEAN, includeDeletes \in BOOLEAN,
        cleanRefs \in BOOLEAN :
       LET r == _build(_fieldDefs, source, removeId, includeDeletes, cleanRefs)
       IN  /\ pc' = "build"
           /\ args' = [op |-> "build", source |-> source, removeId |-> removeId,
                       includeDeletes |-> includeDeletes, cleanRefs |-> cleanRefs]
           /\ object' = r.object
           /\ retObject' = r.ret
           /\ error' = r.error
           /\ trace' = r.validated
  /\ UNCHANGED <<schema, run, writes, history>>

NextBuild ==
  \/ \E model \in OwnerModels : _setModel(model)
  \/ Build

SpecBuild == Init /\ [][NextBuild]_vars

\* _depopulate(key, object)
Depopulate ==
  /\ pc = "idle"
  /\ \E source \in Sources, i \in 1..Len(_fieldDefs) :
       LET key == _fieldDefs[i].key
           r == _depopulate(_fieldDefs, key, source)
       IN  /\ pc' = "depopulate"
           /\ args' = [op |-> "depopulate", source |-> source, key |-> key]
           /\ object' = r.object
           /\ error' = r.error
  /\ UNCHANGED <<schema, run, writes, retObject, trace, history>>

NextDepopulate == Depopulate

SpecDepopulate == Init /\ [][NextDepopulate]_vars

----------------------------------------------------------------------------
(* Registration and the hook chain.                                        *)

\* this._populates.find(p => p.path === def.path)
FindPopulate(path) == \E i \in 1..Len(_populates) : _populates[i].path = path
\* this._preOps.find(p => p.operation === operation)
FindPreOp(operation) == \E i \in 1..Len(_preOps) : _preOps[i].operation = operation
\* this._virtuals.find(v => v.fieldName === fieldName)
FindVirtual(fieldName) == \E i \in 1..Len(_virtuals) : _virtuals[i].fieldName = fieldName
\* this._uploads.find(v => v.path === path)
FindUpload(path) == \E i \in 1..Len(_uploads) : _uploads[i].path = path

\* What a registration call leaves of the last operation, and its record
Registered(call, entry) ==
  /\ Len(history) < MaxCalls
  /\ history' = Append(history, [call |-> call, entry |-> entry])
  /\ Called([op |-> call, entry |-> entry])
  /\ UNCHANGED <<_fieldDefs, _model, _models, run, writes>>

\* populate without the existence check
populate_NoCheck(def) ==
  /\ _populates' = Append(_populates, def)
  /\ Registered("populate", def)
  /\ UNCHANGED <<_preOps, _virtuals, _uploads>>

\* populate(def)
populate(def) ==
  /\ _populates' = IF ~FindPopulate(def.path) THEN Append(_populates, def)
                                              ELSE _populates
  /\ Registered("populate", def)
  /\ UNCHANGED <<_preOps, _virtuals, _uploads>>

\* pre(operation, cb)
pre(operation, cb) ==
  /\ _preOps' = IF ~FindPreOp(operation)
                  THEN Append(_preOps, [operation |-> operation, cb |-> cb])
                  ELSE _preOps
  /\ Registered("pre", [operation |-> operation, cb |-> cb])
  /\ UNCHANGED <<_populates, _virtuals, _uploads>>

\* virtual(fieldName, virtualDef)
virtual(fieldName, virtualDef) ==
  /\ _virtuals' = IF ~FindVirtual(fieldName)
                    THEN Append(_virtuals, [fieldName |-> fieldName, virtualDef |-> virtualDef])
                    ELSE _virtuals
  /\ Registered("virtual", [fieldName |-> fieldName, virtualDef |-> virtualDef])
  /\ UNCHANGED <<_populates, _preOps, _uploads>>

\* upload(storagePath, path)
upload(storagePath, path) ==
  /\ _uploads' = IF ~FindUpload(path)
                   THEN Append(_uploads, [storagePath |-> storagePath, path |-> path])
                   ELSE _uploads
  /\ Registered("upload", [storagePath |-> storagePath, path |-> path])
  /\ UNCHANGED <<_populates, _preOps, _virtuals>>

\* The hook loop without the comparison of operations
HooksLoop_All(preOps, i, operation) == [j \in 1..Len(preOps) |-> preOps[j].cb]

\* The callbacks _hooks(operation) calls, in order
RECURSIVE HooksLoop(_, _, _)
HooksLoop(preOps, i, operation) ==
  IF i > Len(preOps) THEN <<>>
  ELSE (IF preOps[i].operation = operation THEN <<preOps[i].cb>> ELSE <<>>)
         \o HooksLoop(preOps, i + 1, operation)

\* _hooks(operation)
_hooks(operation) ==
  /\ IF run.op = "none"
       THEN /\ pc' = "hooks"
            /\ args' = [op |-> "hooks", operation |-> operation]
            /\ trace' = HooksLoop(_preOps, 1, operation)
            /\ UNCHANGED <<object, retObject, error>>
       ELSE UNCHANGED last
  /\ UNCHANGED <<schema, run, writes, history>>

Operations == {"save", "remove"}
Callbacks == {"cb1", "cb2"}
Paths == {"a", "b"}
ModelNames == {"Target", "Missing"}
VirtualNames == {"v", "w"}
VirtualDefs ==
  {[ref |-> m, localField |-> "_id", foreignField |-> "owner"] : m \in ModelNames}
StoragePaths == {"s1", "s2"}

\* The schema the registration calls are made on
InitRegistry == Init /\ _fieldDefs = SchemaOf(<<ArrayDef("Ref"), Scalar("Ref")>>)

NextRegistry ==
  \/ \E path \in Paths, model \in ModelNames : populate([path |-> path, model |-> model])
  \/ \E operation \in Operations, cb \in Callbacks : pre(operation, cb)
  \/ \E fieldName \in VirtualNames, virtualDef \in VirtualDefs : virtual(fieldName, virtualDef)
  \/ \E storagePath \in StoragePaths, path \in Paths : upload(storagePath, path)
  \/ \E operation \in Operations : _hooks(operation)

SpecRegistry == InitRegistry /\ [][NextRegistry]_vars

----------------------------------------------------------------------------
(* Populate and virtual resolution.  _doPopulates and _doVirtuals are      *)
(* asynchronous: each runs to its next await and gives way there, so that  *)
(* any other call on the schema and any assignment of the caller to the    *)
(* document can take place before the awaited fetch is resumed.  The       *)
(* registries, the model registry and the document are read when the code  *)
(* reads them.  The models of the registry and asyncForEach (./utils) are  *)
(* external: findById and find are stubs that return a document per        *)
(* identity, asyncForEach awaits its callback on each element in turn.     *)
(* One call is in flight at a time.                                        *)

\* The registries handed to _setModels: null, none, the target model
ModelRegistries ==
  {NullModels, [attached |-> TRUE, names |-> <<>>],
   [attached |-> TRUE, names |-> <<"Target">>]}

\* _setModels(models)
_setModels(models) ==
  /\ _models' = models
  /\ Called(NoArgs)
  /\ UNCHANGED <<_fieldDefs, registries, _model, run, writes, history>>

\* this._models.find(m => m._modelName === modelName) finds a model
Resolves(models, modelName) == \E i \in 1..Len(models.names) : models.names[i] = modelName

\* model.findById(id, true) of a registered model
FindById(modelName, id) == Atom("object", id.a)

\* model.find(foreignField, '==', value, true) of a registered model
Find(modelName, foreignField, value) ==
  IF value = Undefined THEN ArrayOf(<<>>) ELSE ArrayOf(<<Atom("object", "F")>>)

\* this._model._modelSchema._fieldDefs[path] instanceof Array (the owning
\* model's schema is this schema)
IsArrayField(defs, path) == path \in DefKeys(defs) /\ FieldDef(defs, path).array

\* object[path] && object[path].length > 0
NonEmpty(v) == Truthy(v) /\ Iterable(v) /\ Len(Elements(v)) > 0

\* What a call did: the value it read at path, the fetch it called, the
\* value it assigned to path
Event(ev, path, model, value) == [ev |-> ev, path |-> path, model |-> model, value |-> value]

\* The call ends with an exception
Throws(st, e) == [st EXCEPT !.error = e]

\* results.push(res) putting the result in front
Push_Front(results, res) == <<res>> \o results

\* results.push(res)
Push(results, res) == Append(results, res)

\* The callback of asyncForEach on element j of the array being fetched, up
\* to its await
FetchElement(st) ==
  LET r == st.run.es[st.run.j]
  IN  IF r = Undefined THEN [st EXCEPT !.run.id = Undefined]
      ELSE IF ~st.run.resolved THEN Throws(st, TypeError("findById", Undefined))
      ELSE [st EXCEPT !.run.id = r,
                      !.trace = Append(st.trace, Event("call", st.run.path, st.run.model, r))]

\* The loop of _doPopulates from descriptor st.run.i on, up to its next
\* await, on st = [run, object, error, trace, done]
RECURSIVE PopulateFrom(_)
PopulateFrom(st) ==
  IF st.run.i > Len(_populates) THEN [st EXCEPT !.done = TRUE]
  ELSE
    LET desc == _populates[st.run.i]
        path == desc.path
        value == Get(st.object, path)
        frame == [st.run EXCEPT !.path = path, !.model = desc.model,
                                !.resolved = Resolves(_models, desc.model),
                                !.es = <<>>, !.j = 0, !.results = <<>>,
                                !.id = Undefined]
        next == [frame EXCEPT !.i = st.run.i + 1]
    IN  IF ~_models.attached THEN Throws(st, TypeError("find", Null))
        ELSE IF ~_model.attached THEN Throws(st, TypeError("_modelSchema", Null))
        ELSE IF IsArrayField(_fieldDefs, path)
          THEN LET read == Append(st.trace, Event("read", path, desc.model, value))
               IN  IF NonEmpty(value)
                     THEN FetchElement([st EXCEPT
                            !.run = [frame EXCEPT !.es = Elements(value), !.j = 1],
                            !.trace = read])
                     ELSE PopulateFrom([st EXCEPT
                            !.run = next,
                            !.object = Put(st.object, path, ArrayOf(<<>>)),
                            !.trace = Append(read,
                               Event("assign", path, desc.model, ArrayOf(<<>>)))])
        ELSE IF value # Undefined
          THEN IF ~frame.resolved THEN Throws(st, TypeError("findById", Undefined))
               ELSE [st EXCEPT
                       !.run = [frame EXCEPT !.id = value],
                       !.trace = Append(st.trace, Event("call", path, desc.model, value))]
        ELSE PopulateFrom([st EXCEPT !.run = next])

\* _doPopulates resumed when the awaited fetch has answered, up to its next
\* await
ResumePopulate(st) ==
  LET f == st.run
  IN  IF f.j = 0
        THEN LET res == FindById(f.model, f.id)
             IN  PopulateFrom([st EXCEPT
                   !.run.i = f.i + 1,
                   !.object = Put(st.object, f.path, res),
                   !.trace = Append(st.trace, Event("assign", f.path, f.model, res))])
        ELSE LET results == IF f.id = Undefined THEN f.results
                            ELSE Push(f.results, FindById(f.model, f.id))
             IN  IF f.j < Len(f.es)
                   THEN FetchElement([st EXCEPT !.run.results = results,
                                                !.run.j = f.j + 1])
                   ELSE PopulateFrom([st EXCEPT
                          !.run.i = f.i + 1,
                          !.object = Put(st.object, f.path, ArrayOf(results)),
                          !.trace = Append(st.trace,
                             Event("assign", f.path, f.model, ArrayOf(results)))])

\* The loop of _doVirtuals at descriptor st.run.i, up to its await
VirtualFrom(st) ==
  IF st.run.i > Len(_virtuals) THEN [st EXCEPT !.done = TRUE]
  ELSE
    LET v == _virtuals[st.run.i]
        value == Get(st.object, v.virtualDef.localField)
    IN  IF ~_models.attached THEN Throws(st, TypeError("find", Null))
        ELSE IF ~Resolves(_models, v.virtualDef.ref) THEN Throws(st, TypeError("find", Undefined))
        ELSE [st EXCEPT
                !.run = [st.run EXCEPT !.path = v.fieldName, !.model = v.virtualDef.ref,
                                       !.resolved = TRUE, !.id = value],
                !.trace = Append(st.trace,
                   Event("call", v.fieldName, v.virtualDef.ref, value))]

\* _doVirtuals resumed when the awaited find has answered, up to its next
\* await
ResumeVirtual(st) ==
  LET f == st.run
      v == _virtuals[f.i]
      res == Find(f.model, v.virtualDef.foreignField, f.id)
  IN  VirtualFrom([st EXCEPT
        !.run.i = f.i + 1,
        !.object = Put(st.object, v.fieldName, res),
        !.trace = Append(st.trace, Event("assign", v.fieldName, f.model, res))])

StrB == Atom("string", "B")

\* Fetched documents: an array field a, a single reference b
Documents ==
  {MakeObject(q[1], q[2], Absent, Absent) :
     q \in {r \in ({Absent} \cup {ArrayOf(es) :
                      es \in SeqsUpTo({StrA, StrB, Undefined}, MaxSize)})
                   \X {Absent, StrA} :
              SizeOf(r[1]) + SizeOf(r[2]) <= MaxSize}}

\* The call as it enters its loop on the document
Entered(op, document) ==
  [run |-> [NoRun EXCEPT !.op = op, !.i = 1], object |-> document,
   error |-> NoError, trace |-> <<>>, done |-> FALSE]

\* The call where it stands
Standing == [run |-> run, object |-> object, error |-> error, trace |-> trace,
             done |-> FALSE]

\* The call gives way at an await, returns the document or throws
Settled(st) ==
  /\ object' = st.object
  /\ trace' = st.trace
  /\ error' = st.error
  /\ IF st.done \/ st.error # NoError
       THEN /\ run' = NoRun
            /\ pc' = st.run.op
            /\ retObject' = IF st.error = NoError THEN st.object ELSE NoObject
       ELSE /\ run' = st.run
            /\ pc' = "pending"
            /\ retObject' = NoObject

\* _doPopulates(object) up to its first await
DoPopulates ==
  /\ run.op = "none"
  /\ \E document \in Documents :
       /\ args' = [op |-> "doPopulates", object |-> document]
       /\ Settled(PopulateFrom(Entered("doPopulates", document)))
  /\ writes' = 0
  /\ UNCHANGED <<schema, history>>

\* _doVirtuals(object) up to its first await
DoVirtuals ==
  /\ run.op = "none"
  /\ \E document \in Documents :
       /\ args' = [op |-> "doVirtuals", object |-> document]
       /\ Settled(VirtualFrom(Entered("doVirtuals", document)))
  /\ writes' = 0
  /\ UNCHANGED <<schema, history>>

\* The fetch awaited by _doPopulates answers
ResumePopulates ==
  /\ run.op = "doPopulates"
  /\ Settled(ResumePopulate(Standing))
  /\ UNCHANGED <<schema, args, writes, history>>

\* The find awaited by _doVirtuals answers
ResumeVirtuals ==
  /\ run.op = "doVirtuals"
  /\ Settled(ResumeVirtual(Standing))
  /\ UNCHANGED <<schema, args, writes, history>>

\* The caller assigns to the document while the call on it is in flight
CallerWrites(path, value) ==
  /\ run.op # "none"
  /\ writes < MaxWrites
  /\ writes' = writes + 1
  /\ object' = Put(object, path, value)
  /\ UNCHANGED <<schema, run, pc, args, retObject, error, trace, history>>

NextPopulate ==
  \/ /\ Len(history) < MaxRegistered
     /\ \E path \in Paths, model \in ModelNames : populate([path |-> path, model |-> model])
  \/ /\ Len(history) < MaxRegistered
     /\ \E fieldName \in VirtualNames, virtualDef \in VirtualDefs :
          virtual(fieldName, virtualDef)
  \/ \E model \in OwnerModels : _setModel(model)
  \/ \E models \in ModelRegistries : _setModels(models)
  \/ DoPopulates
  \/ DoVirtuals
  \/ ResumePopulates
  \/ ResumeVirtuals
  \/ \E path \in Paths : CallerWrites(path, StrB)

SpecPopulate == InitRegistry /\ [][NextPopulate]_vars

----------------------------------------------------------------------------
(* Properties of build.                                                    *)

\* The declared keys, in declaration order
DeclaredKeys == DefKeys(_fieldDefs)
KeyIndex(key) == CHOOSE i \in 1..Len(_fieldDefs) : _fieldDefs[i].key = key

BuildReturned == pc = "build" /\ error = NoError
BuildFailed == pc = "build" /\ error # NoError

\* The identity an element of a reference field stands for
IdentityOf(v) == IF v.t = "object" THEN Atom("string", v.a) ELSE v

\* A reference field's value with every resolved document replaced by its
\* identity
Collapsed(def, v) ==
  IF def = ArrayDef("Ref") /\ v.t = "array"
    THEN ArrayOf([i \in 1..Len(v.e) |-> IdentityOf(v.e[i])])
  ELSE IF def = Scalar("Ref") THEN IdentityOf(v)
  ELSE v

\* The value of a declared shape that build validates: the source's value,
\* collapsed first when cleanRefs is set
Presented(key) ==
  IF args.cleanRefs
    THEN Collapsed(FieldDef(_fieldDefs, key), args.source[key])
    ELSE args.source[key]

\* The declared keys build has a value for
Defined(key) ==
  key \in DeclaredKeys /\ key \in DOMAIN args.source /\ args.source[key] # Undefined

\* C1 as stated: the result's keys are the declared keys the source owns,
\* _id unless removeId, and those of _c, _u that are truthy in the source.
C1_KeySetAsStated ==
  BuildReturned =>
    DOMAIN retObject =
      (DeclaredKeys \cap DOMAIN args.source)
        \cup (IF args.removeId THEN {} ELSE {"_id"})
        \cup {k \in {"_c", "_u"} : Truthy(Get(args.source, k))}

\* C1 amended: a declared key the source owns with the undefined value is in
\* the result only when includeDeletes is set; with that, the key set is as
\* stated, and _id is absent whenever removeId is set.
C1_KeySet ==
  BuildReturned =>
    DOMAIN retObject =
      {k \in DeclaredKeys \cap DOMAIN args.source :
         args.source[k] # Undefined \/ args.includeDeletes}
        \cup (IF args.removeId THEN {} ELSE {"_id"})
        \cup {k \in {"_c", "_u"} : Truthy(Get(args.source, k))}

\* A build returned for a source with an undeclared own key, a declared key
\* holding undefined without includeDeletes, a truthy _c and removeId unset.
C1_Witness ==
  /\ BuildReturned
  /\ ~args.includeDeletes /\ ~args.removeId
  /\ \E k \in DeclaredKeys : k \in DOMAIN args.source /\ args.source[k] = Undefined
  /\ \E k \in DOMAIN args.source : k \notin DeclaredKeys \cup {"_id", "_c", "_u"}
  /\ Truthy(Get(args.source, "_c"))

\* Whether a value satisfies a declared shape
Satisfies(def, v) ==
  IF def.d \in {"String", "Boolean", "Date", "Number", "Ref"}
    THEN IF def.array THEN ValidateArray(def.d, v) ELSE Validate(def.d, v)
    ELSE TRUE

\* The coercion a declared shape asks for
Coerced(def, v) ==
  IF def.d \in {"String", "Boolean", "Date", "Number", "Ref"}
    THEN IF def.array THEN GetValueArray(def.d, v) ELSE GetValue(def.d, v)
    ELSE v

\* The first declared key whose value does not satisfy its shape
FirstInvalid(key) ==
  /\ Defined(key)
  /\ ~Satisfies(FieldDef(_fieldDefs, key), Presented(key))
  /\ \A k \in DeclaredKeys :
       (KeyIndex(k) < KeyIndex(key) /\ Defined(k)) =>
         Satisfies(FieldDef(_fieldDefs, k), Presented(k))

\* C2: whenever a declared, defined field holds a value that does not satisfy
\* its declared shape, build fails, returns no document, and the failure
\* names the owning model the schema is attached to and, when it is a
\* validation failure, the key and the offending value.
C2_InvalidRaises ==
  pc = "build" =>
    \A key \in DeclaredKeys :
      FirstInvalid(key) =>
        /\ error # NoError
        /\ retObject = NoObject
        /\ _model.attached => error.model = _model._modelName
        /\ error.kind = "invalid" =>
             (error.key = key /\ error.value = Presented(key))

\* C3 as stated: a failed build returns nothing and leaves the source as it
\* was before the call, whatever the flags.
C3_SourceUnchangedAsStated ==
  BuildFailed => (retObject = NoObject /\ object = args.source)

\* C3 amended: a failed build returns nothing; it leaves the source as it was
\* when cleanRefs is unset, and with cleanRefs set only fields declared
\* Reference or ArrayOf(Reference) may differ from before the call.
C3_SourceUnchanged ==
  BuildFailed =>
    /\ retObject = NoObject
    /\ DOMAIN object = DOMAIN args.source
    /\ \A k \in DOMAIN object :
         object[k] # args.source[k] =>
           /\ args.cleanRefs
           /\ k \in DeclaredKeys
           /\ FieldDef(_fieldDefs, k) \in {Scalar("Ref"), ArrayDef("Ref")}

\* A build with cleanRefs failed on its second field after collapsing a
\* resolved document in its first, an array of references.
C3_Witness ==
  /\ BuildFailed
  /\ args.cleanRefs
  /\ Len(_fieldDefs) = 2
  /\ _fieldDefs[1].def = ArrayDef("Ref")
  /\ error.key = _fieldDefs[2].key
  /\ Get(object, _fieldDefs[1].key) # Get(args.source, _fieldDefs[1].key)

\* C8: a declared own key holding undefined is never validated or coerced;
\* a build that returns stores the delete sentinel under it when
\* includeDeletes is set and leaves it out of the result otherwise.
C8_Unset ==
  pc = "build" =>
    \A key \in DeclaredKeys :
      (key \in DOMAIN args.source /\ args.source[key] = Undefined) =>
        /\ \A i \in 1..Len(trace) : trace[i] # key
        /\ object[key] = Undefined
        /\ error = NoError =>
             IF args.includeDeletes
               THEN key \in DOMAIN retObject /\ retObject[key] = DeleteSentinel
               ELSE key \notin DOMAIN retObject

\* A build with includeDeletes returned the sentinel for an undefined field
\* next to a validated one.
C8_Witness ==
  /\ BuildReturned
  /\ args.includeDeletes
  /\ Len(trace) = 1
  /\ \E key \in DeclaredKeys :
       /\ key \in DOMAIN args.source /\ args.source[key] = Undefined
       /\ Get(retObject, key) = DeleteSentinel

\* C10: for every declared field with a defined value that satisfies its
\* shape, a build that returns stores the shape's coercion of the value.
C10_StoresCoerced ==
  BuildReturned =>
    \A key \in DeclaredKeys :
      LET def == FieldDef(_fieldDefs, key)
      IN  (Defined(key) /\ def.d # "Other" /\ Satisfies(def, Presented(key))) =>
            retObject[key] = Coerced(def, Presented(key))

----------------------------------------------------------------------------
(* Properties of reference collapsing.                                     *)

\* An array whose elements are bare identities or resolved documents
IsReferenceArray(v) ==
  v.t = "array" /\ \A i \in 1..Len(v.e) : v.e[i].t \in {"string", "object"}

\* C9: collapsing an array-of-reference field replaces each resolved document
\* by its _id and keeps each bare identity, with order and length kept; a
\* field that is not declared Reference or ArrayOf(Reference) and every
\* other key are left as they were.
C9_Collapse ==
  pc = "depopulate" =>
    LET def == FieldDef(_fieldDefs, args.key)
        before == Get(args.source, args.key)
    IN  /\ \A k \in DOMAIN args.source :
             k # args.key => (k \in DOMAIN object /\ object[k] = args.source[k])
        /\ def \notin {Scalar("Ref"), ArrayDef("Ref")} =>
             (object = args.source /\ error = NoError)
        /\ (def = ArrayDef("Ref") /\ IsReferenceArray(before)) =>
             /\ error = NoError
             /\ object[args.key].t = "array"
             /\ Len(object[args.key].e) = Len(before.e)
             /\ \A i \in 1..Len(before.e) :
                  object[args.key].e[i] = IdentityOf(before.e[i])

\* An array of references holding a bare identity and then a resolved
\* document was collapsed.
C9_Witness ==
  /\ pc = "depopulate"
  /\ FieldDef(_fieldDefs, args.key) = ArrayDef("Ref")
  /\ Get(args.source, args.key) = ArrayOf(<<StrA, DocB>>)
  /\ Get(object, args.key) = ArrayOf(<<StrA, Atom("string", "B")>>)

----------------------------------------------------------------------------
(* Properties of populate and virtual resolution.                          *)

\* The call ended on a target the registry did not hold
Unresolved ==
  error.kind = "TypeError" /\ error.key \in {"findById", "find"} /\ error.value = Undefined

\* C4: applyPopulates and applyVirtuals never fail because a registered
\* descriptor names a target the registry does not hold: such a descriptor
\* leaves the call to complete normally.
C4_UnresolvedIsNoError ==
  pc \in {"doPopulates", "doVirtuals"} => ~Unresolved

\* What the call did at a path, in order: its reads, its fetches, its
\* assignments
Events(ev, path) == SelectSeq(trace, LAMBDA c : c.ev = ev /\ c.path = path)

\* An array of identities only
IsIdentityArray(v) ==
  v.t = "array" /\ \A i \in 1..Len(v.e) : v.e[i].t = "string"

\* C5: for every populate descriptor on an array-of-reference field, an
\* applyPopulates that returns has read the field once and assigned it once;
\* where it read an array of identities it assigned the documents findById
\* gave for them, in the order read, after one findById call per element in
\* that order; where it read nothing or the empty array it assigned the
\* empty array and made no findById call.  When the caller assigned nothing
\* meanwhile, what was read is the field of the document handed in and what
\* was assigned is the field of the document returned.
C5_ArrayPopulate ==
  (pc = "doPopulates" /\ error = NoError) =>
    \A i \in 1..Len(_populates) :
      LET path == _populates[i].path
          model == _populates[i].model
          reads == Events("read", path)
          calls == Events("call", path)
          assigns == Events("assign", path)
      IN  FieldDef(_fieldDefs, path) = ArrayDef("Ref") =>
            /\ Len(reads) = 1
            /\ Len(assigns) = 1
            /\ LET before == reads[1].value
                   after == assigns[1].value
               IN  /\ (before = Undefined \/ before = ArrayOf(<<>>)) =>
                        (calls = <<>> /\ after = ArrayOf(<<>>))
                   /\ IsIdentityArray(before) =>
                        /\ after = ArrayOf([j \in 1..Len(before.e) |->
                                              FindById(model, before.e[j])])
                        /\ calls = [j \in 1..Len(before.e) |->
                                      Event("call", path, model, before.e[j])]
                   /\ writes = 0 =>
                        /\ before = Get(args.object, path)
                        /\ after = Get(retObject, path)

\* applyPopulates returned for a document whose array field held two
\* different identities, after two findById calls.
C5_Witness ==
  /\ pc = "doPopulates"
  /\ error = NoError
  /\ writes = 0
  /\ \E i \in 1..Len(_populates) :
       /\ _populates[i].path = "a"
       /\ Get(args.object, "a") = ArrayOf(<<StrB, StrA>>)
       /\ Get(retObject, "a") = ArrayOf(<<Atom("object", "B"), Atom("object", "A")>>)
       /\ Len(Events("call", "a")) = 2

----------------------------------------------------------------------------
(* Properties of the registries and the hook chain.                        *)

\* The identity key of a registration
KeyOf(call, entry) ==
  CASE call = "populate" -> entry.path
    [] call = "pre" -> entry.operation
    [] call = "virtual" -> entry.fieldName
    [] call = "upload" -> entry.path

\* The calls of one kind made with one key, as positions in the history
CallsWith(call, key) ==
  {i \in 1..Len(history) :
     history[i].call = call /\ KeyOf(call, history[i].entry) = key}

\* The first of them
FirstCall(call, key) ==
  CHOOSE i \in CallsWith(call, key) : \A j \in CallsWith(call, key) : i <= j

\* A registry holds one entry per key registered, the entry of the first
\* registration with that key, in the order of those first registrations
RegistryIsFirsts(registry, call) ==
  /\ \A i, j \in 1..Len(registry) :
       i < j => KeyOf(call, registry[i]) # KeyOf(call, registry[j])
  /\ {KeyOf(call, registry[i]) : i \in 1..Len(registry)} =
       {KeyOf(call, history[i].entry) : i \in {j \in 1..Len(history) : history[j].call = call}}
  /\ \A i \in 1..Len(registry) :
       registry[i] = history[FirstCall(call, KeyOf(call, registry[i]))].entry
  /\ \A i, j \in 1..Len(registry) :
       i < j => FirstCall(call, KeyOf(call, registry[i]))
                  < FirstCall(call, KeyOf(call, registry[j]))

\* C6: after any sequence of registration calls each registry holds exactly
\* one entry per key, the one of the first registration with the key, in
\* first-registration order.
C6_Registries ==
  /\ RegistryIsFirsts(_populates, "populate")
  /\ RegistryIsFirsts(_preOps, "pre")
  /\ RegistryIsFirsts(_virtuals, "virtual")
  /\ RegistryIsFirsts(_uploads, "upload")

\* A populate path was registered twice with different models, then another
\* path, and the registry holds the first and the third call's entries.
C6_Witness ==
  /\ Len(history) = 3
  /\ history[1].call = "populate" /\ history[2].call = "populate"
  /\ history[3].call = "populate"
  /\ history[1].entry.path = history[2].entry.path
  /\ history[1].entry # history[2].entry
  /\ _populates = <<history[1].entry, history[3].entry>>

\* The registerHook calls made under an operation, as positions in the history
PreCalls(operation) == CallsWith("pre", operation)

\* C7 as stated: runHooks(op) invokes every callback registered under op,
\* and none that was not registered under op.
C7_InvokesAllAsStated ==
  pc = "hooks" =>
    /\ \A i \in PreCalls(args.operation) :
         \E j \in 1..Len(trace) : trace[j] = history[i].entry.cb
    /\ \A j \in 1..Len(trace) :
         \E i \in PreCalls(args.operation) : trace[j] = history[i].entry.cb

\* C7 amended: runHooks(op) invokes the callback of the first registerHook
\* call made under op, once, and nothing else; callbacks of later
\* registrations under the same op were dropped and are not invoked.
C7_InvokesFirst ==
  pc = "hooks" =>
    trace = IF PreCalls(args.operation) = {} THEN <<>>
            ELSE <<history[FirstCall("pre", args.operation)].entry.cb>>

\* Hooks ran for an operation registered twice with different callbacks,
\* with a hook under another operation registered as well.
C7_Witness ==
  /\ pc = "hooks"
  /\ Cardinality(PreCalls(args.operation)) = 2
  /\ \E i, j \in PreCalls(args.operation) : history[i].entry.cb # history[j].entry.cb
  /\ \E i \in 1..Len(history) :
       history[i].call = "pre" /\ history[i].entry.operation # args.operation
  /\ Len(trace) = 1

====
